---- MODULE Spec2Model ----
(***************************************************************************)
(* The 32-byte digest primitive of sui-types (digests.rs) and its six      *)
(* domain wrappers: construction, conversions, base-58 and hex text forms, *)
(* parsing, ordering and the ObjectDigest sentinels.                       *)
(*                                                                         *)
(* Every operation of the source is a pure function of its arguments.  A   *)
(* behaviour of the model is one call: Init draws the receiver kind and    *)
(* the caller's inputs (a byte slice, a text), and one action applies one  *)
(* operation to them and records what the call produced in `ret`.          *)
(* Text is a sequence of one-character strings.                            *)
(***************************************************************************)
EXTENDS Integers, Sequences, FiniteSets, TLC

VARIABLES
  kind,   \* the type the operation is called on
  bytes,  \* the caller's byte input: a &[u8] slice, a [u8; 32] when its length is 32
  text,   \* the caller's &str input
  op,     \* the operation that was called, "none" before the call
  alt,    \* the formatter's alternate flag ('#') of a formatting call
  rhs,    \* the right-hand operand of a comparison
  ret     \* what the call produced

vars == <<kind, bytes, text, op, alt, rhs, ret>>

----------------------------------------------------------------------------
(* Bounds of the input sets. *)

\* slices of every length 0..MaxSliceLen are tried (below, at and above 32)
MaxSliceLen == 34
\* byte values tried beyond the ones the source names
NumExtraBytes == 1
\* positions inside the array, besides the first and the last, where one byte is varied
NumMidPositions == 1
\* characters outside the base-58 alphabet that are tried
NumBadChars == 3

----------------------------------------------------------------------------
(* Program constants. *)

DigestLen == 32
U8_MIN == 0
U8_MAX == 255
OBJECT_DIGEST_DELETED_BYTE_VAL == 99
OBJECT_DIGEST_WRAPPED_BYTE_VAL == 88

Kinds == {"Digest", "CheckpointDigest", "CheckpointContentsDigest", "TransactionDigest",
          "TransactionEffectsDigest", "TransactionEventsDigest", "ObjectDigest"}

\* Which impl blocks exist for which type.
HasInner(k) == k # "TransactionEventsDigest"
HasArrayConversions(k) == k # "TransactionEventsDigest"
HasDisplay(k) == k # "TransactionEventsDigest"
HasBase58Encode(k) == k \notin {"Digest", "TransactionEventsDigest"}
HasHex(k) == k # "TransactionEventsDigest"
HasTryFrom(k) == k \in {"TransactionDigest", "ObjectDigest"}
HasFromStr(k) == k \in {"CheckpointDigest", "TransactionDigest", "ObjectDigest"}
HasDefault(k) == k \in {"Digest", "CheckpointDigest", "TransactionDigest"}
HasZERO(k) == k \in {"Digest", "TransactionDigest", "TransactionEffectsDigest",
                     "TransactionEventsDigest"}

\* The type name a debug_tuple prints.
TypeName(k) ==
  CASE k = "CheckpointDigest" -> <<"C", "h", "e", "c", "k", "p", "o", "i", "n", "t", "D", "i", "g", "e", "s", "t">>
    [] k = "CheckpointContentsDigest" -> <<"C", "h", "e", "c", "k", "p", "o", "i", "n", "t", "C", "o", "n", "t", "e", "n", "t", "s", "D", "i", "g", "e", "s", "t">>
    [] k = "TransactionDigest" -> <<"T", "r", "a", "n", "s", "a", "c", "t", "i", "o", "n", "D", "i", "g", "e", "s", "t">>
    [] k = "TransactionEffectsDigest" -> <<"T", "r", "a", "n", "s", "a", "c", "t", "i", "o", "n", "E", "f", "f", "e", "c", "t", "s", "D", "i", "g", "e", "s", "t">>
    [] k = "TransactionEventsDigest" -> <<"T", "r", "a", "n", "s", "a", "c", "t", "i", "o", "n", "E", "v", "e", "n", "t", "s", "D", "i", "g", "e", "s", "t">>

----------------------------------------------------------------------------
(* Sequences. *)

Reverse(s) == [i \in 1..Len(s) |-> s[Len(s) + 1 - i]]

Repeat(v, n) == [i \in 1..n |-> v]

RECURSIVE LeadingCount(_, _)
LeadingCount(s, z) ==
  IF s # <<>> /\ Head(s) = z THEN 1 + LeadingCount(Tail(s), z) ELSE 0

----------------------------------------------------------------------------
(* The base-58 codec (fastcrypto's Base58 over bs58, Bitcoin alphabet). *)

ALPHABET == <<"1", "2", "3", "4", "5", "6", "7", "8", "9",
              "A", "B", "C", "D", "E", "F", "G", "H", "J", "K", "L", "M", "N", "P",
              "Q", "R", "S", "T", "U", "V", "W", "X", "Y", "Z",
              "a", "b", "c", "d", "e", "f", "g", "h", "i", "j", "k", "m", "n", "o",
              "p", "q", "r", "s", "t", "u", "v", "w", "x", "y", "z">>

InAlphabet(c) == \E i \in 1..Len(ALPHABET) : ALPHABET[i] = c

\* The digit a character stands for.
CharVal(c) == (CHOOSE i \in 1..Len(ALPHABET) : ALPHABET[i] = c) - 1

\* One pass over the little-endian digits `ds` of a number in base `base`:
\* the number times `mul` plus `carry`, the digits grown as the carry needs.
RECURSIVE MulAdd(_, _, _, _)
MulAdd(ds, carry, mul, base) ==
  IF ds = <<>>
  THEN IF carry = 0 THEN <<>>
       ELSE <<carry % base>> \o MulAdd(<<>>, carry \div base, mul, base)
  ELSE LET c == carry + Head(ds) * mul
       IN  <<c % base>> \o MulAdd(Tail(ds), c \div base, mul, base)

RECURSIVE EncodeDigits(_, _)
EncodeDigits(input, out) ==
  IF input = <<>> THEN out
  ELSE EncodeDigits(Tail(input), MulAdd(out, Head(input), 256, 58))

\* Base58::encode: the digits of the input read as a big-endian number, one
\* "1" for every leading zero byte.
Base58Encode(input) ==
  LET ds == EncodeDigits(input, <<>>) \o Repeat(0, LeadingCount(input, 0))
  IN  Reverse([i \in 1..Len(ds) |-> ALPHABET[ds[i] + 1]])

RECURSIVE DecodeBytes(_, _)
DecodeBytes(input, out) ==
  IF input = <<>> THEN out
  ELSE DecodeBytes(Tail(input), MulAdd(out, CharVal(Head(input)), 58, 256))

\* Base58::decode: an error at a character outside the alphabet, else the
\* bytes of the number, one zero byte for every leading "1".
Base58Decode(s) ==
  IF \E i \in 1..Len(s) : ~InAlphabet(s[i])
  THEN [ok |-> FALSE, bytes |-> <<>>]
  ELSE [ok |-> TRUE,
        bytes |-> Reverse(DecodeBytes(s, <<>>) \o Repeat(0, LeadingCount(s, ALPHABET[1])))]

----------------------------------------------------------------------------
(* The canonical Digest: a tuple struct over [u8; 32]. *)

\* Faulty variant of DigestNew: the last byte is not copied.
DigestNewDroppingLast(digest) ==
  [kind |-> "Digest", digest |-> [digest EXCEPT ![DigestLen] = 0]]

DigestNew(digest) == [kind |-> "Digest", digest |-> digest]

Digest_ZERO == DigestNew(Repeat(0, DigestLen))

\* #[derive(Default)]: the default of [u8; 32] is all zero.
DigestDefault == DigestNew(Repeat(0, DigestLen))

DigestInner(self) == self.digest

DigestIntoInner(self) == self.digest

DigestDisplay(self) == Base58Encode(self.digest)

DigestDebug(self) == DigestDisplay(self)

HEX_LOWER == <<"0", "1", "2", "3", "4", "5", "6", "7", "8", "9", "a", "b", "c", "d", "e", "f">>
HEX_UPPER == <<"0", "1", "2", "3", "4", "5", "6", "7", "8", "9", "A", "B", "C", "D", "E", "F">>

\* Faulty variant of FormatByte02: "{:x}", no padding.
FormatByteNoPad(byte, digits) ==
  IF byte < 16 THEN <<digits[byte + 1]>>
  ELSE <<digits[(byte \div 16) + 1], digits[(byte % 16) + 1]>>

\* "{:02x}" / "{:02X}" of a u8: the hex digits, zero-padded to width 2.
FormatByte02(byte, digits) ==
  LET body == IF byte < 16 THEN <<digits[byte + 1]>>
              ELSE <<digits[(byte \div 16) + 1], digits[(byte % 16) + 1]>>
  IN  Repeat("0", 2 - Len(body)) \o body

RECURSIVE HexBytes(_, _)
HexBytes(bs, digits) ==
  IF bs = <<>> THEN <<>> ELSE FormatByte02(Head(bs), digits) \o HexBytes(Tail(bs), digits)

DigestLowerHex(self, alternate) ==
  (IF alternate THEN <<"0", "x">> ELSE <<>>) \o HexBytes(self.digest, HEX_LOWER)

DigestUpperHex(self, alternate) ==
  (IF alternate THEN <<"0", "x">> ELSE <<>>) \o HexBytes(self.digest, HEX_UPPER)

\* #[derive(PartialEq, Eq)] over [u8; 32]: every element equal.
DigestEq(a, b) == \A i \in 1..DigestLen : a.digest[i] = b.digest[i]

\* Faulty variant of CmpFrom: the elements compared as i8.
RECURSIVE CmpFromSigned(_, _, _)
CmpFromSigned(a, b, i) ==
  LET signed(x) == IF x >= 128 THEN x - 256 ELSE x
  IN  IF i > DigestLen THEN "Equal"
      ELSE IF signed(a[i]) < signed(b[i]) THEN "Less"
      ELSE IF signed(a[i]) > signed(b[i]) THEN "Greater"
      ELSE CmpFromSigned(a, b, i + 1)

\* #[derive(PartialOrd, Ord)] over [u8; 32]: the first unequal pair of
\* elements decides, the elements compared as u8.
RECURSIVE CmpFrom(_, _, _)
CmpFrom(a, b, i) ==
  IF i > DigestLen THEN "Equal"
  ELSE IF a[i] < b[i] THEN "Less"
  ELSE IF a[i] > b[i] THEN "Greater"
  ELSE CmpFrom(a, b, i + 1)

DigestCmp(a, b) == CmpFrom(a.digest, b.digest, 1)

----------------------------------------------------------------------------
(* The domain wrappers: tuple structs over one Digest.  An operation called *)
(* on kind "Digest" is the canonical one.                                   *)

New(k, digest) ==
  IF k = "Digest" THEN DigestNew(digest) ELSE [kind |-> k, digest |-> DigestNew(digest)]

\* self.0 of a wrapper; the canonical Digest is its own.
Canonical(self) == IF self.kind = "Digest" THEN self ELSE self.digest

Inner(self) == DigestInner(Canonical(self))

IntoInner(self) == DigestIntoInner(Canonical(self))

\* From<K> for [u8; 32]
IntoArray(self) == IntoInner(self)

\* From<[u8; 32]> for K
FromArray(k, digest) == New(k, digest)

\* the derived comparisons of a wrapper compare its one field
Eq(a, b) == DigestEq(Canonical(a), Canonical(b))

Cmp(a, b) == DigestCmp(Canonical(a), Canonical(b))

Display(self) == DigestDisplay(Canonical(self))

\* base58_encode: Base58::encode(self.0), the Digest read as its bytes
Base58EncodeOf(self) == Base58Encode(Canonical(self).digest)

\* Formatter::debug_tuple(name).field(value).finish() with value's text
\* `field`: on one line, or with '#' one field per line, indented and
\* followed by a comma.
DebugTuple(name, field, alternate) ==
  IF alternate
  THEN name \o <<"(", "\n">> \o <<" ", " ", " ", " ">> \o field \o <<",", "\n">> \o <<")">>
  ELSE name \o <<"(">> \o field \o <<")">>

\* Faulty variant of Debug: every kind prints the bare Display text.
DebugBare(self, alternate) == DigestDebug(Canonical(self))

Debug(self, alternate) ==
  CASE self.kind = "Digest" -> DigestDebug(self)
    [] self.kind = "ObjectDigest" -> <<"o", "#">> \o DigestDisplay(self.digest)
    [] OTHER -> DebugTuple(TypeName(self.kind), DigestDebug(self.digest), alternate)

LowerHex(self, alternate) == DigestLowerHex(Canonical(self), alternate)

UpperHex(self, alternate) == DigestUpperHex(Canonical(self), alternate)

\* What a call produces.
Value(v) == [tag |-> "Value", val |-> v]
Ok(v) == [tag |-> "Ok", val |-> v]
Err(e) == [tag |-> "Err", val |-> e]
Panic(msg) == [tag |-> "Panic", val |-> msg]

\* Faulty variant of TryFromSlice: a longer slice is cut to its first 32 bytes.
TryFromSliceTruncating(k, slice) ==
  IF Len(slice) >= DigestLen THEN Ok(New(k, SubSeq(slice, 1, DigestLen)))
  ELSE Err("SuiError::InvalidTransactionDigest")

\* TryFrom<&[u8]>: the slice converts to [u8; 32] only at length 32.
TryFromSlice(k, slice) ==
  IF Len(slice) = DigestLen THEN Ok(New(k, slice))
  ELSE Err("SuiError::InvalidTransactionDigest")

\* Faulty variant of FromStr: the decoded bytes are never copied into the result array.
FromStrWithoutCopy(k, s) ==
  LET decoded == Base58Decode(s)
  IN  IF ~decoded.ok THEN Err("anyhow::Error(decode)")
      ELSE Ok(New(k, Repeat(0, DigestLen)))

\* Faulty variant of FromStr: the decoding result is unwrapped, not returned.
FromStrUnwrapping(k, s) ==
  LET decoded == Base58Decode(s)
  IN  IF ~decoded.ok THEN Panic("unwrap on an Err value")
      ELSE IF Len(decoded.bytes) # DigestLen
           THEN Panic("copy_from_slice: source slice length does not match destination slice length")
           ELSE Ok(New(k, decoded.bytes))

\* FromStr: a decoding error is returned through the ? operator; the decoded bytes are
\* then copied into a [u8; 32] with copy_from_slice, which panics unless
\* the two lengths are equal.
FromStr(k, s) ==
  LET decoded == Base58Decode(s)
  IN  IF ~decoded.ok THEN Err("anyhow::Error(decode)")
      ELSE IF Len(decoded.bytes) # DigestLen
           THEN Panic("copy_from_slice: source slice length does not match destination slice length")
           ELSE Ok(New(k, decoded.bytes))

\* Default: derived for Digest and CheckpointDigest, ZERO for TransactionDigest.
TransactionDigest_ZERO == [kind |-> "TransactionDigest", digest |-> Digest_ZERO]

TransactionDigestDefault == TransactionDigest_ZERO

\* Faulty variant of genesis(): a marker of its own, not ZERO.
TransactionDigestGenesisOnes ==
  [kind |-> "TransactionDigest", digest |-> DigestNew(Repeat(1, DigestLen))]

TransactionDigestGenesis == TransactionDigest_ZERO

Default(k) ==
  CASE k = "Digest" -> DigestDefault
    [] k = "CheckpointDigest" -> [kind |-> k, digest |-> DigestDefault]
    [] k = "TransactionDigest" -> TransactionDigestDefault

ZERO(k) ==
  CASE k = "Digest" -> Digest_ZERO
    [] k = "TransactionDigest" -> TransactionDigest_ZERO
    [] OTHER -> [kind |-> k, digest |-> Digest_ZERO]

ObjectDigest_MIN == New("ObjectDigest", Repeat(U8_MIN, DigestLen))
ObjectDigest_MAX == New("ObjectDigest", Repeat(U8_MAX, DigestLen))
OBJECT_DIGEST_DELETED == New("ObjectDigest", Repeat(OBJECT_DIGEST_DELETED_BYTE_VAL, DigestLen))
OBJECT_DIGEST_WRAPPED == New("ObjectDigest", Repeat(OBJECT_DIGEST_WRAPPED_BYTE_VAL, DigestLen))

ObjectConstant(name) ==
  CASE name = "MIN" -> ObjectDigest_MIN
    [] name = "MAX" -> ObjectDigest_MAX
    [] name = "OBJECT_DIGEST_DELETED" -> OBJECT_DIGEST_DELETED
    [] name = "OBJECT_DIGEST_WRAPPED" -> OBJECT_DIGEST_WRAPPED

\* Faulty variant of is_alive: only DELETED is excluded.
IsAliveDeletedOnly(self) == ~Eq(self, OBJECT_DIGEST_DELETED)

IsAlive(self) == ~Eq(self, OBJECT_DIGEST_DELETED) /\ ~Eq(self, OBJECT_DIGEST_WRAPPED)

----------------------------------------------------------------------------
(* The inputs of a call. *)

ByteVals ==
  {U8_MIN, 5, OBJECT_DIGEST_WRAPPED_BYTE_VAL, OBJECT_DIGEST_DELETED_BYTE_VAL, U8_MAX}
    \cup {(171 + 37 * (n - 1)) % 256 : n \in 1..NumExtraBytes}

Positions == {1, DigestLen} \cup {((15 * n) % DigestLen) + 1 : n \in 1..NumMidPositions}

\* 32-byte arrays: one value throughout, or one value with one byte changed.
Arrays ==
  {Repeat(v, DigestLen) : v \in ByteVals}
    \cup {[Repeat(v, DigestLen) EXCEPT ![p] = w] : v \in ByteVals, w \in ByteVals, p \in Positions}

\* Slices of the other lengths.
OtherSlices ==
  {Repeat(v, n) : v \in {U8_MIN, U8_MAX}, n \in (0..MaxSliceLen) \ {DigestLen}}

Slices == Arrays \cup OtherSlices

\* The right-hand operands of comparisons.
RhsArrays ==
  {Repeat(v, DigestLen) : v \in {U8_MIN, OBJECT_DIGEST_DELETED_BYTE_VAL, U8_MAX}}
    \cup {[Repeat(v, DigestLen) EXCEPT ![p] = w] :
            v \in {U8_MIN, OBJECT_DIGEST_DELETED_BYTE_VAL}, w \in {5, U8_MAX}, p \in Positions}

BadCharList == <<"0", "O", "l", "I", "+", " ", "#">>
BadChars == {BadCharList[n] : n \in 1..NumBadChars}

\* Texts with a character outside the alphabet: alone, or in place of the
\* first, the second or the last character of a digest's text, or appended
\* to it.
BadTexts ==
  LET good == {Base58Encode(Repeat(v, DigestLen)) : v \in {U8_MIN, U8_MAX}}
  IN  {<<c>> : c \in BadChars}
        \cup {[t EXCEPT ![p] = c] : t \in good, c \in BadChars, p \in {1, 2}}
        \cup {[t EXCEPT ![Len(t)] = c] : t \in good, c \in BadChars}
        \cup {t \o <<c>> : t \in good, c \in BadChars}

\* A call's slice and text: a slice and the base-58 text of that slice, or
\* the empty slice and a text that is not base-58.
Inputs ==
  {<<b, Base58Encode(b)>> : b \in Slices} \cup {<< <<>>, t >> : t \in BadTexts}

NoRet == [tag |-> "None", val |-> "none"]

Init ==
  /\ kind \in Kinds
  /\ \E in \in Inputs : bytes = in[1] /\ text = in[2]
  /\ op = "none"
  /\ alt = FALSE
  /\ rhs = <<>>
  /\ ret = NoRet

----------------------------------------------------------------------------
(* The operations.  `bytes` is a [u8; 32] when its length is DigestLen. *)

IsArray(b) == Len(b) = DigestLen

Call(name, result) ==
  /\ op = "none"
  /\ op' = name
  /\ ret' = result
  /\ UNCHANGED <<kind, bytes, text>>

CallNew ==
  /\ IsArray(bytes)
  /\ Call("new", Value(New(kind, bytes)))
  /\ UNCHANGED <<alt, rhs>>

CallFromArray ==
  /\ IsArray(bytes) /\ HasArrayConversions(kind)
  /\ Call("from_array", Value(FromArray(kind, bytes)))
  /\ UNCHANGED <<alt, rhs>>

CallInner ==
  /\ IsArray(bytes) /\ HasInner(kind)
  /\ Call("inner", Value(Inner(New(kind, bytes))))
  /\ UNCHANGED <<alt, rhs>>

CallIntoInner ==
  /\ IsArray(bytes) /\ HasInner(kind)
  /\ Call("into_inner", Value(IntoInner(New(kind, bytes))))
  /\ UNCHANGED <<alt, rhs>>

CallIntoArray ==
  /\ IsArray(bytes) /\ HasArrayConversions(kind)
  /\ Call("into_array", Value(IntoArray(FromArray(kind, bytes))))
  /\ UNCHANGED <<alt, rhs>>

CallDisplay ==
  /\ IsArray(bytes) /\ HasDisplay(kind)
  /\ Call("display", Value(Display(New(kind, bytes))))
  /\ UNCHANGED <<alt, rhs>>

CallBase58Encode ==
  /\ IsArray(bytes) /\ HasBase58Encode(kind)
  /\ Call("base58_encode", Value(Base58EncodeOf(New(kind, bytes))))
  /\ UNCHANGED <<alt, rhs>>

CallDebug ==
  /\ IsArray(bytes)
  /\ \E alternate \in BOOLEAN :
       /\ alt' = alternate
       /\ Call("debug", Value(Debug(New(kind, bytes), alternate)))
  /\ UNCHANGED rhs

CallLowerHex ==
  /\ IsArray(bytes) /\ HasHex(kind)
  /\ \E alternate \in BOOLEAN :
       /\ alt' = alternate
       /\ Call("lower_hex", Value(LowerHex(New(kind, bytes), alternate)))
  /\ UNCHANGED rhs

CallUpperHex ==
  /\ IsArray(bytes) /\ HasHex(kind)
  /\ \E alternate \in BOOLEAN :
       /\ alt' = alternate
       /\ Call("upper_hex", Value(UpperHex(New(kind, bytes), alternate)))
  /\ UNCHANGED rhs

CallTryFrom ==
  /\ HasTryFrom(kind)
  /\ Call("try_from", TryFromSlice(kind, bytes))
  /\ UNCHANGED <<alt, rhs>>

CallFromStr ==
  /\ HasFromStr(kind)
  /\ Call("from_str", FromStr(kind, text))
  /\ UNCHANGED <<alt, rhs>>

CallDefault ==
  /\ HasDefault(kind)
  /\ Call("default", Value(Default(kind)))
  /\ UNCHANGED <<alt, rhs>>

CallZERO ==
  /\ HasZERO(kind)
  /\ Call("ZERO", Value(ZERO(kind)))
  /\ UNCHANGED <<alt, rhs>>

CallGenesis ==
  /\ kind = "TransactionDigest"
  /\ Call("genesis", Value(TransactionDigestGenesis))
  /\ UNCHANGED <<alt, rhs>>

CallObjectConstant ==
  /\ kind = "ObjectDigest"
  /\ \E name \in {"MIN", "MAX", "OBJECT_DIGEST_DELETED", "OBJECT_DIGEST_WRAPPED"} :
       Call(name, Value(ObjectConstant(name)))
  /\ UNCHANGED <<alt, rhs>>

CallIsAlive ==
  /\ IsArray(bytes) /\ kind = "ObjectDigest"
  /\ Call("is_alive", Value(IsAlive(New(kind, bytes))))
  /\ UNCHANGED <<alt, rhs>>

CallEq ==
  /\ IsArray(bytes)
  /\ \E other \in RhsArrays \cup {bytes} :
       /\ rhs' = other
       /\ Call("eq", Value(Eq(New(kind, bytes), New(kind, other))))
  /\ UNCHANGED alt

CallCmp ==
  /\ IsArray(bytes)
  /\ \E other \in RhsArrays \cup {bytes} :
       /\ rhs' = other
       /\ Call("cmp", Value(Cmp(New(kind, bytes), New(kind, other))))
  /\ UNCHANGED alt

Next ==
  \/ CallNew
  \/ CallFromArray
  \/ CallInner
  \/ CallIntoInner
  \/ CallIntoArray
  \/ CallDisplay
  \/ CallBase58Encode
  \/ CallDebug
  \/ CallLowerHex
  \/ CallUpperHex
  \/ CallTryFrom
  \/ CallFromStr
  \/ CallDefault
  \/ CallZERO
  \/ CallGenesis
  \/ CallObjectConstant
  \/ CallIsAlive
  \/ CallEq
  \/ CallCmp

Spec == Init /\ [][Next]_vars

----------------------------------------------------------------------------
(* Properties. *)

ZeroBytes == Repeat(0, DigestLen)

HasBadChar(s) == \E i \in 1..Len(s) : ~InAlphabet(s[i])

\* a is before b in byte-wise lexicographic order, the bytes read as 0..255
LexLess(a, b) ==
  \E i \in 1..DigestLen : a[i] < b[i] /\ \A j \in 1..(i - 1) : a[j] = b[j]

\* C1: from_str of a text that is valid base-58 but decodes to a number of
\* bytes other than 32 returns an error to the caller: no digest, no panic.
C1_WrongLengthIsReturnedError ==
  (op = "from_str" /\ ~HasBadChar(text) /\ Len(Base58Decode(text).bytes) # DigestLen)
    => ret.tag = "Err"

\* C2: for every kind with FromStr and every digest d of it, from_str of
\* the Display text of d succeeds with a digest equal to d.
C2_ParseOfDisplayIsIdentity ==
  (op = "from_str" /\ IsArray(bytes) /\ text = Display(New(kind, bytes)))
    => /\ ret.tag = "Ok"
       /\ ret.val = New(kind, bytes)
       /\ Eq(ret.val, New(kind, bytes))

C2_Witness ==
  /\ op = "from_str" /\ kind = "ObjectDigest"
  /\ bytes = ZeroBytes
  /\ text = Display(ObjectDigest_MIN)
  /\ ret = Ok(ObjectDigest_MIN)

\* C3: try_from on TransactionDigest and ObjectDigest succeeds exactly when
\* the slice has 32 bytes, then holds the slice byte for byte, and at every
\* other length returns InvalidTransactionDigest, for both kinds.
C3_TryFromLength ==
  op = "try_from"
    => /\ kind \in {"TransactionDigest", "ObjectDigest"}
       /\ ret.tag = "Ok" <=> Len(bytes) = DigestLen
       /\ ret.tag = "Ok" =>
            /\ Len(Inner(ret.val)) = DigestLen
            /\ \A i \in 1..DigestLen : Inner(ret.val)[i] = bytes[i]
            /\ ret.val.kind = kind
       /\ ret.tag # "Ok" => ret = Err("SuiError::InvalidTransactionDigest")

C3_Witness ==
  /\ op = "try_from" /\ kind = "ObjectDigest"
  /\ Len(bytes) = DigestLen + 1
  /\ ret = Err("SuiError::InvalidTransactionDigest")

\* C4: is_alive is false exactly for the all-99 value (DELETED) and the
\* all-88 value (WRAPPED); the two differ, and MIN and MAX are alive.
C4_IsAliveExcludesTwoValues ==
  /\ op = "is_alive" =>
       ret.val = ~(\/ \A i \in 1..DigestLen : bytes[i] = 99
                   \/ \A i \in 1..DigestLen : bytes[i] = 88)
  /\ op = "OBJECT_DIGEST_DELETED" =>
       /\ \A i \in 1..DigestLen : Inner(ret.val)[i] = 99
       /\ ~IsAlive(ret.val)
       /\ ~Eq(ret.val, OBJECT_DIGEST_WRAPPED)
  /\ op = "OBJECT_DIGEST_WRAPPED" =>
       /\ \A i \in 1..DigestLen : Inner(ret.val)[i] = 88
       /\ ~IsAlive(ret.val)
       /\ ~Eq(ret.val, OBJECT_DIGEST_DELETED)
  /\ op = "MIN" => (IsAlive(ret.val) /\ \A i \in 1..DigestLen : Inner(ret.val)[i] = 0)
  /\ op = "MAX" => (IsAlive(ret.val) /\ \A i \in 1..DigestLen : Inner(ret.val)[i] = 255)

C4_Witness ==
  /\ op = "is_alive"
  /\ Cardinality({i \in 1..DigestLen : bytes[i] = 99}) = DigestLen - 1
  /\ ret.val = TRUE

\* C5: TransactionDigest's default(), genesis() and ZERO are one value, and
\* its raw bytes are 32 zero bytes.
C5_GenesisIsZeroIsDefault ==
  (kind = "TransactionDigest" /\ op \in {"default", "genesis", "ZERO"})
    => /\ Inner(ret.val) = ZeroBytes
       /\ IntoInner(ret.val) = ZeroBytes
       /\ ret.val = Default("TransactionDigest")
       /\ ret.val = TransactionDigestGenesis
       /\ ret.val = ZERO("TransactionDigest")

C5_Witness ==
  /\ kind = "TransactionDigest" /\ op = "genesis"
  /\ Inner(ret.val) = ZeroBytes

\* C6: for every kind, a < b exactly when a's bytes are before b's in
\* byte-wise lexicographic order (bytes as 0..255), a == b exactly when all
\* 32 bytes are equal, and exactly one of a < b, a == b, b < a holds.
C6_OrderIsLexicographic ==
  /\ op = "cmp" =>
       /\ ret.val \in {"Less", "Equal", "Greater"}
       /\ ret.val = "Less" <=> LexLess(bytes, rhs)
       /\ ret.val = "Greater" <=> LexLess(rhs, bytes)
       /\ ret.val = "Equal" <=> \A i \in 1..DigestLen : bytes[i] = rhs[i]
       /\ ret.val = "Equal" <=> Eq(New(kind, bytes), New(kind, rhs))
  /\ op = "eq" => (ret.val <=> \A i \in 1..DigestLen : bytes[i] = rhs[i])

C6_Witness ==
  /\ op = "cmp" /\ kind = "CheckpointContentsDigest"
  /\ bytes[1] = rhs[1]
  /\ \E i \in 2..DigestLen : bytes[i] >= 128 /\ rhs[i] < 128
  /\ ret.val = "Greater"

\* C7: from_str of a text with a character outside the base-58 alphabet
\* returns the wrapped decoding error, whatever the length of the text.
C7_BadCharacterIsReturnedError ==
  (op = "from_str" /\ HasBadChar(text)) => ret = Err("anyhow::Error(decode)")

C7_Witness ==
  /\ op = "from_str" /\ kind = "CheckpointDigest"
  /\ Len(text) = Len(Base58Encode(Repeat(U8_MAX, DigestLen)))
  /\ ~InAlphabet(text[Len(text)])
  /\ \A i \in 1..(Len(text) - 1) : InAlphabet(text[i])
  /\ ret.tag = "Err"

\* C8: new(b) and from(b) store b exactly: the value holds 32 bytes, inner(),
\* into_inner() and the conversion back to an array give b byte for byte,
\* and the values built from the same b are equal.
C8_NewStoresBytesExactly ==
  /\ op \in {"new", "from_array"} =>
       /\ ret.tag = "Value"
       /\ ret.val.kind = kind
       /\ Canonical(ret.val).digest = bytes
       /\ HasInner(kind) => (Inner(ret.val) = bytes /\ IntoInner(ret.val) = bytes)
       /\ HasArrayConversions(kind) =>
            (IntoArray(ret.val) = bytes /\ Eq(ret.val, FromArray(kind, bytes)))
       /\ Eq(ret.val, New(kind, bytes))
  /\ op \in {"inner", "into_inner", "into_array"} => ret.val = bytes

C8_Witness ==
  /\ op = "from_array" /\ kind = "TransactionDigest"
  /\ bytes[1] # bytes[DigestLen]
  /\ Inner(ret.val) = bytes

\* C9, as claimed: Debug of an ObjectDigest is "o#" and the Display text;
\* Debug of every other kind with both formats is the Display text.
C9_DebugIsBareText ==
  (op = "debug" /\ HasDisplay(kind))
    => ret.val = (IF kind = "ObjectDigest" THEN <<"o", "#">> ELSE <<>>)
                   \o Display(New(kind, bytes))

\* C9, amended: Debug of an ObjectDigest is "o#" and the Display text; Debug
\* of the canonical Digest is the Display text; Debug of the other wrappers
\* with both formats is the type's name and the Display text in parentheses
\* (with '#': on a line of its own, indented by four, followed by a comma).
C9_DebugForms ==
  (op = "debug" /\ HasDisplay(kind))
    => LET shown == Display(New(kind, bytes))
       IN  CASE kind = "ObjectDigest" -> ret.val = <<"o", "#">> \o shown
             [] kind = "Digest" -> ret.val = shown
             [] OTHER ->
                  ret.val = IF alt
                            THEN TypeName(kind) \o <<"(", "\n", " ", " ", " ", " ">>
                                   \o shown \o <<",", "\n", ")">>
                            ELSE TypeName(kind) \o <<"(">> \o shown \o <<")">>

C9_Witness ==
  /\ op = "debug" /\ kind = "TransactionDigest" /\ ~alt
  /\ SubSeq(ret.val, 1, 18) = TypeName("TransactionDigest") \o <<"(">>
  /\ ret.val[Len(ret.val)] = ")"

\* C10: the hex formatters print the 32 bytes in order, two digits each
\* (zero-padded), lowercase or uppercase: 64 characters, after "0x" exactly
\* when the alternate flag is set; a wrapper prints what the canonical
\* Digest of the same bytes prints.
C10_HexForms ==
  op \in {"lower_hex", "upper_hex"}
    => LET digits == IF op = "lower_hex" THEN HEX_LOWER ELSE HEX_UPPER
           skip == IF alt THEN 2 ELSE 0
       IN  /\ Len(ret.val) = 2 * DigestLen + skip
           /\ alt => (ret.val[1] = "0" /\ ret.val[2] = "x")
           /\ \A i \in 1..DigestLen :
                /\ ret.val[skip + 2 * i - 1] = digits[(bytes[i] \div 16) + 1]
                /\ ret.val[skip + 2 * i] = digits[(bytes[i] % 16) + 1]
           /\ ret.val = IF op = "lower_hex" THEN DigestLowerHex(DigestNew(bytes), alt)
                        ELSE DigestUpperHex(DigestNew(bytes), alt)

C10_Witness ==
  /\ op = "lower_hex" /\ kind = "ObjectDigest" /\ alt
  /\ bytes[1] = 5 /\ bytes[2] = U8_MAX
  /\ SubSeq(ret.val, 1, 6) = <<"0", "x", "0", "5", "f", "f">>
  /\ Len(ret.val) = 66

====
